---- MODULE Spec2Model ----
(***************************************************************************)
(* Chassis.Model (src/src/model/model.js): an observable attribute store   *)
(* with a fetch/parse/sync lifecycle.                                      *)
(*                                                                         *)
(* JavaScript runs every handler to completion, so each public method and  *)
(* each transport callback is one atomic action.  The only suspension      *)
(* point is the transport call made by fetch: requests handed to sync sit  *)
(* in `pending` until the transport invokes success or error.              *)
(***************************************************************************)
EXTENDS Integers, FiniteSets, Sequences, TLC

VARIABLES
    idAttribute,         \* prototype: name of the identity attribute (line 42)
    parseMode,           \* prototype: which parse hook the type carries
    constructed,         \* has `new Model(...)` run
    attributes,          \* me.attributes
    previousAttributes,  \* me._previousAttributes
    own,                 \* the instance's other own fields: cid, me[idAttribute]
    pending,             \* requests handed to the transport and not yet completed, in issue order
    fired,               \* callbacks/notifications raised by the latest operation, in order
    last                 \* the latest operation: its arguments and return value

vars == <<idAttribute, parseMode, constructed, attributes,
          previousAttributes, own, pending, fired, last>>

(***************************************************************************)
(* Bounds and value universes                                              *)
(***************************************************************************)
MaxInFlight == 2

Undefined == "undefined"
Null == "null"

IdAttributeNames == {"id"}
Values == {Null, "a"}
Keys == {idAttribute, "title"}

EmptyMap == [k \in {} |-> Null]
MappingsOver(K) == UNION {[D -> Values] : D \in SUBSET K}
Mappings == MappingsOver(Keys)

\* JavaScript values that reach set()'s first parameter
JNull == [t |-> "null", s |-> "", m |-> EmptyMap]
JStr(s) == [t |-> "string", s |-> s, m |-> EmptyMap]
JObj(m) == [t |-> "object", s |-> "", m |-> m]

Options == [silent : BOOLEAN, unset : BOOLEAN]
NoOptions == [silent |-> FALSE, unset |-> FALSE]

(***************************************************************************)
(* Consumed utilities (Chassis core, not part of model.js)                 *)
(***************************************************************************)
\* Chassis.clone: an independent structural copy
Clone(obj) == [k \in DOMAIN obj |-> obj[k]]

\* Chassis.mixin(target, source): later source wins
Mixin(target, source) ==
    [k \in DOMAIN target \cup DOMAIN source |->
        IF k \in DOMAIN source THEN source[k] ELSE target[k]]

\* Chassis.uniqueId('c')
UniqueId(prefix) == prefix \o "1"

\* Events.trigger: synchronous dispatch, recorded in order
Trigger(log, name) == Append(log, name)

\* property write and delete on a plain object
Put(obj, k, v) == [x \in DOMAIN obj \cup {k} |-> IF x = k THEN v ELSE obj[x]]
Delete(obj, k) == [x \in DOMAIN obj \ {k} |-> obj[x]]

(***************************************************************************)
(* Attribute store                                                         *)
(***************************************************************************)
\* get (lines 102-104): a missing property reads as undefined
Get(attrs, key) == IF key \in DOMAIN attrs THEN attrs[key] ELSE Undefined

\* has (lines 124-126): strict comparison against null only
Has(attrs, key) == Get(attrs, key) # Null

\* toJSON (lines 220-222)
\* an object with its identity: "attributes" is me.attributes itself, "copy"
\* an object nothing else refers to
Object(ref, m) == [ref |-> ref, m |-> m]

\* Chassis.clone(obj) seen with identities: a new object with the same content
Copy(obj) == Object("copy", Clone(obj.m))

\* variant: the attribute object itself is handed out
ToJSONShared(obj) == obj

ToJSON(obj) == Copy(obj)

\* variant: the snapshot is not taken
SnapshotPreviousStale(me) == me.previousAttributes

\* line 180
SnapshotPrevious(me) == Clone(me.attributes)

\* variant: a null identity is not mirrored
MirrorIdUnlessNull(fields, idAttr, attrs) ==
    IF idAttr \in DOMAIN attrs /\ attrs[idAttr] # Null
    THEN Put(fields, idAttr, attrs[idAttr]) ELSE fields

\* lines 182-184
MirrorId(fields, idAttr, attrs) ==
    IF idAttr \in DOMAIN attrs THEN Put(fields, idAttr, attrs[idAttr]) ELSE fields

\* variant: a key already present keeps its value
ApplyAttrKeepExisting(cur, key, item, opts) ==
    IF opts.unset THEN Delete(cur, key)
    ELSE IF key \in DOMAIN cur THEN cur ELSE Put(cur, key, item)

\* lines 187-191: the body of the each callback
ApplyAttr(cur, key, item, opts) ==
    IF opts.unset THEN Delete(cur, key) ELSE Put(cur, key, item)

RECURSIVE EachAttr(_, _, _, _)
\* variant: the iteration stops after the first key
EachAttrStopsEarly(cur, attrs, todo, opts) ==
    IF todo = {} THEN cur
    ELSE LET key == CHOOSE k \in todo : TRUE
         IN ApplyAttr(cur, key, attrs[key], opts)

\* lines 186-192: Chassis.$.each over the incoming mapping
EachAttr(cur, attrs, todo, opts) ==
    IF todo = {} THEN cur
    ELSE LET key == CHOOSE k \in todo : TRUE
         IN EachAttr(ApplyAttr(cur, key, attrs[key], opts), attrs, todo \ {key}, opts)

\* variant: the silent option is not consulted
NotifyChangeIgnoringSilent(log, opts) == Trigger(log, "change")

\* lines 194-196
NotifyChange(log, opts) == IF ~opts.silent THEN Trigger(log, "change") ELSE log

\* what a callback invoked at this point finds on the instance: a "change"
\* listener is observed through get and the previous snapshot, the caller's
\* success callback and the init hook through get alone
View(at, me) ==
    [at |-> at, attributes |-> me.attributes,
     previousAttributes |-> IF at = "change" THEN me.previousAttributes ELSE EmptyMap]

\* a callback or hook of the caller runs: it is logged with what it finds
Invoke(me, at) ==
    [me EXCEPT !.fired = Trigger(me.fired, at), !.seen = Append(me.seen, View(at, me))]

\* set (lines 153-198) on me = [attributes, previousAttributes, own, fired,
\* seen, script, ret], statement by statement.  A "change" listener finds the
\* instance as it is at line 195; a listener with a script re-enters set with
\* the next mapping of its script before trigger returns.
RECURSIVE SetCall(_, _, _, _, _)
\* variant: the notification is dispatched before the attributes are written
SetCallNotifiesFirst(me, idAttr, key, val, opts) ==
    IF key.t = "null" THEN [me EXCEPT !.ret = "me"]
    ELSE LET attrs == IF key.t = "object" THEN key.m ELSE (key.s :> val)
             o == IF key.t = "object" THEN val ELSE opts
             snapped == [me EXCEPT !.previousAttributes = SnapshotPrevious(me)]
             logged == NotifyChange(snapped.fired, o)
             heard == IF logged = snapped.fired THEN snapped
                      ELSE [snapped EXCEPT !.fired = logged,
                                           !.seen = Append(snapped.seen, View("change", snapped))]
         IN [heard EXCEPT !.own = MirrorId(heard.own, idAttr, attrs),
                          !.attributes = EachAttr(heard.attributes, attrs, DOMAIN attrs, o),
                          !.ret = Undefined]

\* lines 180-192: snapshot, identity mirror, one write or delete per key
Written(me, idAttr, attrs, opts) ==
    [me EXCEPT !.previousAttributes = SnapshotPrevious(me),
               !.own = MirrorId(me.own, idAttr, attrs),
               !.attributes = EachAttr(me.attributes, attrs, DOMAIN attrs, opts)]

\* lines 194-196: the listener hears the change on the instance as written
Heard(written, logged) ==
    IF logged = written.fired THEN written
    ELSE [written EXCEPT !.fired = logged,
                         !.seen = Append(written.seen, View("change", written))]

\* variant: the null guard is missing and the call runs as for an empty mapping
SetCallUnguarded(me, idAttr, key, val, opts) ==
    LET attrs == IF key.t = "string" THEN (key.s :> val) ELSE key.m
        o == IF key.t = "string" THEN opts
             ELSE IF key.t = "null" THEN NoOptions ELSE val
    IN Heard(Written(me, idAttr, attrs, o), NotifyChange(me.fired, o))

SetCall(me, idAttr, key, val, opts) ==
    IF key.t = "null" THEN [me EXCEPT !.ret = "me"]
    ELSE LET attrs == IF key.t = "object" THEN key.m ELSE (key.s :> val)
             o == IF key.t = "object" THEN val ELSE opts
             heard == Heard(Written(me, idAttr, attrs, o), NotifyChange(me.fired, o))
         IN IF heard.script = <<>> \/ heard.fired = me.fired THEN heard
            ELSE [SetCall([heard EXCEPT !.script = Tail(heard.script)], idAttr,
                          JObj(Head(heard.script)), NoOptions, NoOptions)
                  EXCEPT !.ret = Undefined]

\* the instance as an operation finds it; no listener re-enters unless said
Me == [attributes |-> attributes, previousAttributes |-> previousAttributes,
       own |-> own, fired |-> <<>>, seen |-> <<>>, script |-> <<>>, ret |-> Undefined]

(***************************************************************************)
(* Sync lifecycle                                                          *)
(***************************************************************************)
\* parse (lines 302-304) is the identity; the documented override
\* (lines 291-293) returns resp['data']
Parse(mode, resp) == IF mode = "data" THEN resp.m.data ELSE resp

\* what the transport can deliver to a type: the shape its parse hook expects
Payloads == {JNull} \cup {JObj(m) : m \in Mappings}
Responses(mode) ==
    IF mode = "data" THEN {JObj([data |-> p]) : p \in Payloads} ELSE Payloads

\* fetch lines 251-256: the caller's options, copied, over the defaults
FetchOptions(opts) == Mixin(NoOptions, Clone(opts))

\* variant: the raw response is applied instead of the parsed one
OnSuccessUnparsed(me, idAttr, mode, resp, opts) ==
    SetCall(Invoke([me EXCEPT !.fired = Trigger(me.fired, "parse")], "success"),
            idAttr, resp, opts, NoOptions)

\* variant: set is called without the fetch call's options
OnSuccessDropsOptions(me, idAttr, mode, resp, opts) ==
    SetCall(Invoke([me EXCEPT !.fired = Trigger(me.fired, "parse")], "success"),
            idAttr, Parse(mode, resp), NoOptions, NoOptions)

\* variant: the response is applied before the caller's callback runs
OnSuccessSetsFirst(me, idAttr, mode, resp, opts) ==
    Invoke(SetCall([me EXCEPT !.fired = Trigger(me.fired, "parse")],
                   idAttr, Parse(mode, resp), opts, NoOptions), "success")

\* variant: the error notification is raised after a success as well
OnSuccessAlsoError(me, idAttr, mode, resp, opts) ==
    LET done == SetCall(Invoke([me EXCEPT !.fired = Trigger(me.fired, "parse")], "success"),
                        idAttr, Parse(mode, resp), opts, NoOptions)
    IN [done EXCEPT !.fired = Trigger(done.fired, "error")]

\* fetch lines 260-265: the success handler handed to the transport
OnSuccess(me, idAttr, mode, resp, opts) ==
    LET parsed == Parse(mode, resp)
        called == Invoke([me EXCEPT !.fired = Trigger(me.fired, "parse")], "success")
    IN SetCall(called, idAttr, parsed, opts, NoOptions)

\* variant: the error handler also resets the store
OnErrorResets(me) ==
    [me EXCEPT !.fired = Trigger(me.fired, "error"), !.attributes = EmptyMap]

\* fetch lines 266-268: the error handler handed to the transport
OnError(me) == [me EXCEPT !.fired = Trigger(me.fired, "error")]

\* sync (lines 317-319): the request goes to the transport
Sync(queue, request) == Append(queue, request)

Without(queue, i) == [j \in 1..(Len(queue) - 1) |-> IF j < i THEN queue[j] ELSE queue[j + 1]]

\* variant: the defaults are merged over the caller's attributes
MergeDefaultsOnTop(defs, attrs) == Mixin(Mixin(EmptyMap, attrs), defs)

\* constructor line 27: defaults first, the caller's attributes over them
MergeDefaults(defs, attrs) == Mixin(Mixin(EmptyMap, defs), attrs)

\* variant: the init hook runs before the attributes are applied
NewModelInitFirst(idAttr, defs, attrs, opts) ==
    LET fresh == [attributes |-> EmptyMap, previousAttributes |-> EmptyMap,
                  own |-> ("cid" :> UniqueId("c")), fired |-> <<>>,
                  seen |-> <<>>, script |-> <<>>, ret |-> Undefined]
    IN SetCall(Invoke(fresh, "init"), idAttr, JObj(MergeDefaults(defs, attrs)),
               opts, NoOptions)

\* constructor lines 23-30: empty snapshot, cid, set of the merged mapping, init
NewModel(idAttr, defs, attrs, opts) ==
    LET fresh == [attributes |-> EmptyMap, previousAttributes |-> EmptyMap,
                  own |-> ("cid" :> UniqueId("c")), fired |-> <<>>,
                  seen |-> <<>>, script |-> <<>>, ret |-> Undefined]
        applied == SetCall(fresh, idAttr, JObj(MergeDefaults(defs, attrs)),
                           opts, NoOptions)
    IN Invoke(applied, "init")

(***************************************************************************)
(* Record of the latest operation                                          *)
(***************************************************************************)
Op(op, key, val, opts, id, ret, raw, defs, after, seen) ==
    [op |-> op, key |-> key, val |-> val, opts |-> opts, id |-> id, ret |-> ret,
     raw |-> raw, defaults |-> defs, pre |-> attributes, after |-> after,
     seen |-> seen]

NoOp == [op |-> "none", key |-> JNull, val |-> Undefined, opts |-> NoOptions,
         id |-> 0, ret |-> Undefined, raw |-> JNull, defaults |-> EmptyMap,
         pre |-> EmptyMap, after |-> "other", seen |-> <<>>]

\* set(B) right after set(A), both without options, B overwriting a value A wrote
AfterSet(attrs, opts) ==
    IF /\ last.op = "set" /\ last.key.t = "object"
       /\ last.opts = NoOptions /\ opts = NoOptions
       /\ \E k \in DOMAIN attrs \cap DOMAIN last.key.m : attrs[k] # last.key.m[k]
    THEN "set" ELSE "other"

\* the success of request i right after the success of a request issued
\* later, both responses carrying a key with different values
AfterSuccess(i, parsed) ==
    IF /\ last.op = "success" /\ i < last.id
       /\ LET first == Parse(parseMode, last.raw)
          IN /\ first.t = "object" /\ parsed.t = "object"
             /\ \E k \in DOMAIN first.m \cap DOMAIN parsed.m : first.m[k] # parsed.m[k]
    THEN "later-success" ELSE "other"

Bool(b) == IF b THEN "true" ELSE "false"

Install(me) ==
    /\ attributes' = me.attributes
    /\ previousAttributes' = me.previousAttributes
    /\ own' = me.own
    /\ fired' = me.fired

\* the instance after an operation, with the record of that operation
Done(me, op, key, val, opts, id, raw, defs, after) ==
    /\ Install(me)
    /\ last' = Op(op, key, val, opts, id, me.ret, raw, defs, after, me.seen)

(***************************************************************************)
(* Initial state: a type has been defined, no instance exists yet          *)
(***************************************************************************)
\* the type under study carries the documented override
ParseModes == {"data"}

Init ==
    /\ idAttribute \in IdAttributeNames
    /\ parseMode \in ParseModes
    /\ constructed = FALSE
    /\ attributes = EmptyMap
    /\ previousAttributes = EmptyMap
    /\ own = EmptyMap
    /\ pending = <<>>
    /\ fired = <<>>
    /\ last = NoOp

(***************************************************************************)
(* Operations                                                              *)
(***************************************************************************)
\* new Model(attributes, opts) (lines 13-31) on a type whose prototype carries
\* `defs` as defaults; the constructor is the only reader of me.defaults
Construct(defs, attrs, opts) ==
    /\ ~constructed
    /\ constructed' = TRUE
    /\ Done(NewModel(idAttribute, defs, attrs, opts),
            "new", JObj(attrs), Undefined, opts, 0, JNull, defs, "other")
    /\ UNCHANGED <<idAttribute, parseMode, pending>>

\* me.get(key)
GetOp(key) ==
    /\ constructed
    /\ fired' = <<>>
    /\ last' = Op("get", JStr(key), Undefined, NoOptions, 0, Get(attributes, key),
                  JNull, EmptyMap, "other", <<>>)
    /\ UNCHANGED <<idAttribute, parseMode, constructed, attributes,
                   previousAttributes, own, pending>>

\* me.has(key)
HasOp(key) ==
    /\ constructed
    /\ fired' = <<>>
    /\ last' = Op("has", JStr(key), Undefined, NoOptions, 0, Bool(Has(attributes, key)),
                  JNull, EmptyMap, "other", <<>>)
    /\ UNCHANGED <<idAttribute, parseMode, constructed, attributes,
                   previousAttributes, own, pending>>

\* me.toJSON()
ToJSONOp ==
    /\ constructed
    /\ fired' = <<>>
    /\ LET json == ToJSON(Object("attributes", attributes))
       IN last' = Op("toJSON", JObj(json.m), Undefined, NoOptions, 0, json.ref,
                     JNull, EmptyMap, "other", <<>>)
    /\ UNCHANGED <<idAttribute, parseMode, constructed, attributes,
                   previousAttributes, own, pending>>

\* me.change() (lines 313-315)
ChangeOp ==
    /\ constructed
    /\ fired' = Trigger(<<>>, "change")
    /\ last' = Op("change", JNull, Undefined, NoOptions, 0, Undefined,
                  JNull, EmptyMap, "other", <<>>)
    /\ UNCHANGED <<idAttribute, parseMode, constructed, attributes,
                   previousAttributes, own, pending>>

\* me.set(attrs, opts): the mapping form
SetOp(attrs, opts) ==
    /\ constructed
    /\ Done(SetCall(Me, idAttribute, JObj(attrs), opts, NoOptions),
            "set", JObj(attrs), Undefined, opts, 0, JNull, EmptyMap, AfterSet(attrs, opts))
    /\ UNCHANGED <<idAttribute, parseMode, constructed, pending>>

\* me.set(key, val, opts): the name/value form
SetKeyOp(key, val, opts) ==
    /\ constructed
    /\ Done(SetCall(Me, idAttribute, JStr(key), val, opts),
            "set", JStr(key), val, opts, 0, JNull, EmptyMap, "other")
    /\ UNCHANGED <<idAttribute, parseMode, constructed, pending>>

\* me.set(null, undefined, opts)
SetNullOp(opts) ==
    /\ constructed
    /\ Done(SetCall(Me, idAttribute, JNull, Undefined, opts),
            "set", JNull, Undefined, opts, 0, JNull, EmptyMap, "other")
    /\ UNCHANGED <<idAttribute, parseMode, constructed, pending>>

\* me.fetch(opts) (lines 247-273): builds the request and hands it to sync
\* variant: the request completes inside the fetch call, with an empty response
FetchOpSynchronous(opts) ==
    /\ constructed
    /\ Len(pending) < MaxInFlight
    /\ pending' = Sync(pending, FetchOptions(opts))
    /\ Done(OnSuccess(Me, idAttribute, "", JObj(EmptyMap), FetchOptions(opts)),
            "fetch", JNull, Undefined, opts, Len(pending) + 1, JNull, EmptyMap, "other")
    /\ UNCHANGED <<idAttribute, parseMode, constructed>>

FetchOp(opts) ==
    /\ constructed
    /\ Len(pending) < MaxInFlight
    /\ pending' = Sync(pending, FetchOptions(opts))
    /\ fired' = <<>>
    /\ last' = Op("fetch", JNull, Undefined, opts, Len(pending) + 1, Undefined,
                  JNull, EmptyMap, "other", <<>>)
    /\ UNCHANGED <<idAttribute, parseMode, constructed, attributes,
                   previousAttributes, own>>

\* the transport completes the i-th outstanding request through its success handler
TransportSuccess(i, resp) ==
    /\ i \in 1..Len(pending)
    /\ pending' = Without(pending, i)
    /\ Done(OnSuccess(Me, idAttribute, parseMode, resp, pending[i]),
            "success", JNull, Undefined, pending[i], i, resp, EmptyMap,
            AfterSuccess(i, Parse(parseMode, resp)))
    /\ UNCHANGED <<idAttribute, parseMode, constructed>>

\* the transport completes the i-th outstanding request through its error handler
TransportError(i) ==
    /\ i \in 1..Len(pending)
    /\ pending' = Without(pending, i)
    /\ Install(OnError(Me))
    /\ last' = Op("error", JNull, Undefined, NoOptions, 0, Undefined,
                  JNull, EmptyMap, "other", <<>>)
    /\ UNCHANGED <<idAttribute, parseMode, constructed>>

\* set(attrs, opts) while a "change" listener is registered that calls
\* set(inner) the first time it is notified
SetHeardOp(attrs, opts, inner) ==
    /\ constructed
    /\ Done(SetCall([Me EXCEPT !.script = <<inner>>], idAttribute, JObj(attrs), opts,
                    NoOptions),
            "set", JObj(attrs), Undefined, opts, 0, JObj(inner), EmptyMap, "other")
    /\ UNCHANGED <<idAttribute, parseMode, constructed, pending>>

\* the caller writes (or deletes) a key of the mapping the latest toJSON
\* returned; the write reaches me.attributes only if that is the same object
MutateReturned(key, val, delete) ==
    /\ constructed
    /\ last.op \in {"toJSON", "mutate"}
    /\ LET returned == IF delete THEN Delete(last.key.m, key)
                       ELSE Put(last.key.m, key, val)
       IN /\ attributes' = IF last.ret = "attributes" THEN returned ELSE attributes
          /\ last' = Op("mutate", JObj(returned), Undefined, NoOptions, 0, last.ret,
                        JNull, EmptyMap, "other", <<>>)
    /\ fired' = <<>>
    /\ UNCHANGED <<idAttribute, parseMode, constructed, previousAttributes, own, pending>>

Next ==
    \/ \E defs \in Mappings, attrs \in Mappings, opts \in Options :
           Construct(defs, attrs, opts)
    \/ \E key \in Keys : GetOp(key)
    \/ \E key \in Keys : HasOp(key)
    \/ ToJSONOp
    \/ ChangeOp
    \/ \E attrs \in Mappings, opts \in Options : SetOp(attrs, opts)
    \/ \E key \in Keys, val \in Values, opts \in Options : SetKeyOp(key, val, opts)
    \/ \E opts \in {o \in Options : ~o.unset} : SetNullOp(opts)
    \/ \E opts \in Options : FetchOp(opts)
    \/ \E i \in 1..Len(pending), resp \in Responses(parseMode) : TransportSuccess(i, resp)
    \/ \E i \in 1..Len(pending) : TransportError(i)

Spec == Init /\ [][Next]_vars

\* the attribute store alone, with a caller that keeps what toJSON returned
NextStore ==
    \/ \E defs \in Mappings, attrs \in Mappings, opts \in Options :
           Construct(defs, attrs, opts)
    \/ \E key \in Keys : GetOp(key)
    \/ \E key \in Keys : HasOp(key)
    \/ ToJSONOp
    \/ ChangeOp
    \/ \E attrs \in Mappings, opts \in Options : SetOp(attrs, opts)
    \/ \E key \in Keys, val \in Values, opts \in Options : SetKeyOp(key, val, opts)
    \/ \E opts \in {o \in Options : ~o.unset} : SetNullOp(opts)
    \/ \E attrs \in Mappings, opts \in Options, inner \in Mappings :
           SetHeardOp(attrs, opts, inner)
    \/ \E key \in Keys, val \in Values, delete \in BOOLEAN :
           MutateReturned(key, val, delete)

SpecStore == Init /\ [][NextStore]_vars

\* The sync lifecycle alone.  The caller marks each outstanding fetch with an
\* option of its own (fetch passes unknown options through, lines 251-256), so
\* that a call can be followed from issue to completion.
Calls == 1..MaxInFlight

TaggedOptions == [silent : {FALSE}, unset : {FALSE}, tag : Calls]

InFlight(call) == \E i \in 1..Len(pending) : pending[i].tag = call

\* the transport completes the request of one call, either way
Settle(call) ==
    \E i \in 1..Len(pending) :
        /\ pending[i].tag = call
        /\ \/ \E resp \in Responses(parseMode) : TransportSuccess(i, resp)
           \/ TransportError(i)

NextSync ==
    \/ \E attrs \in Mappings : Construct(EmptyMap, attrs, NoOptions)
    \/ \E opts \in {o \in TaggedOptions : ~InFlight(o.tag)} : FetchOp(opts)
    \/ \E i \in 1..Len(pending), resp \in Responses(parseMode) : TransportSuccess(i, resp)
    \/ \E i \in 1..Len(pending) : TransportError(i)

\* the transport invokes one of the two callbacks of every request it was
\* given: a request that stays in flight is eventually completed
FairSync ==
    /\ Init /\ [][NextSync]_vars
    /\ \A call \in Calls : WF_vars(Settle(call))

\* types made by extend (lines 323-325) may override idAttribute (line 42)
\* with any property name, that of the correlation id included
ConfiguredIdNames == IdAttributeNames \cup {"cid"}

InitAnyId ==
    /\ idAttribute \in ConfiguredIdNames
    /\ parseMode \in ParseModes
    /\ constructed = FALSE
    /\ attributes = EmptyMap
    /\ previousAttributes = EmptyMap
    /\ own = EmptyMap
    /\ pending = <<>>
    /\ fired = <<>>
    /\ last = NoOp

SpecAnyId == InitAnyId /\ [][Next]_vars

(***************************************************************************)
(* Vocabulary of the properties                                            *)
(***************************************************************************)
Count(log, name) == Cardinality({i \in 1..Len(log) : log[i] = name})

\* the mapping a set call names: the first argument, or {key: val}
Named(call) == IF call.key.t = "object" THEN call.key.m ELSE (call.key.s :> call.val)

\* X overridden by Y
Overridden(X, Y) ==
    [k \in DOMAIN X \cup DOMAIN Y |-> IF k \in DOMAIN Y THEN Y[k] ELSE X[k]]

WroteSet(call) == call.op = "set" /\ call.key.t # "null"

\* the mirrored identity field me[idAttribute]
MirroredId == IF idAttribute \in DOMAIN own THEN own[idAttribute] ELSE Undefined

Parsed(call) == Parse(parseMode, call.raw)

(***************************************************************************)
(* C1: set(X, {silent: true}) triggers no "change" notification and set(X) *)
(* without silent triggers exactly one, however many keys X has and        *)
(* whether or not the values differ from the stored ones.                  *)
(***************************************************************************)
C1_ChangeOncePerSet ==
    WroteSet(last) =>
        Count(fired, "change") = (IF last.opts.silent THEN 0 ELSE 1)

\* a set of two keys, both already holding the written values, notified once
C1_Witness ==
    /\ WroteSet(last) /\ ~last.opts.silent /\ ~last.opts.unset
    /\ Cardinality(DOMAIN Named(last)) = 2
    /\ last.pre = attributes
    /\ fired = <<"change">>

(***************************************************************************)
(* C2: after set(A) followed by set(B), neither with unset, from snapshot  *)
(* C, current equals C overridden by A overridden by B.                    *)
(***************************************************************************)
C2_SetSetIsUnion ==
    [][(/\ WroteSet(last) /\ ~last.opts.unset
        /\ WroteSet(last') /\ ~last'.opts.unset)
       => attributes' = Overridden(Overridden(last.pre, Named(last)), Named(last'))]_vars

\* set(B) has followed set(A), B replacing a value A wrote, a key of C surviving
C2_Witness ==
    /\ last.after = "set"
    /\ \E k \in DOMAIN attributes : k \notin DOMAIN Named(last)

(***************************************************************************)
(* C3: has(k) is true exactly when get(k) is neither the absent marker nor *)
(* null; it is false for a key never set and for a key set to null.        *)
(***************************************************************************)
C3_HasIffMeaningful ==
    last.op = "has" =>
        (last.ret = "true" <=> Get(attributes, last.key.s) \notin {Undefined, Null})

(***************************************************************************)
(* C4: after set(k, v, {unset: true}) key k is not in current, get(k)      *)
(* returns the absent marker, has(k) is false, other keys are untouched.   *)
(***************************************************************************)
C4_UnsetRemoves ==
    (WroteSet(last) /\ last.key.t = "string" /\ last.opts.unset) =>
        /\ last.key.s \notin DOMAIN attributes
        /\ Get(attributes, last.key.s) = Undefined
        /\ ~Has(attributes, last.key.s)
        /\ \A k \in Keys \ {last.key.s} : Get(attributes, k) = Get(last.pre, k)

(***************************************************************************)
(* C5: every set call with a non-null first argument leaves previous equal *)
(* to what current was just before the call (silent, identical values,     *)
(* absent keys and unset included); get, has, toJSON, change(), issuing a  *)
(* fetch and a transport error leave previous unchanged.                   *)
(***************************************************************************)
C5_PreviousIsPreCall ==
    [][/\ WroteSet(last') => previousAttributes' = attributes
       /\ last'.op \in {"get", "has", "toJSON", "change", "fetch", "error"}
              => previousAttributes' = previousAttributes]_vars

\* a silent unset naming only an absent key: nothing changed, previous follows
C5_Witness ==
    /\ WroteSet(last) /\ last.opts.silent /\ last.opts.unset
    /\ DOMAIN Named(last) \cap DOMAIN last.pre = {}
    /\ DOMAIN Named(last) # {}
    /\ last.pre # EmptyMap
    /\ previousAttributes = attributes

(***************************************************************************)
(* C6: after a set (no unset) whose mapping contains the idAttribute key   *)
(* with value v, the mirrored identity field and get(idAttribute) equal v. *)
(***************************************************************************)
C6_IdMirrored ==
    (WroteSet(last) /\ ~last.opts.unset /\ idAttribute \in DOMAIN Named(last)) =>
        /\ MirroredId = Named(last)[idAttribute]
        /\ Get(attributes, idAttribute) = Named(last)[idAttribute]

\* the identity was replaced: a stored non-null id overwritten with null
C6_Witness ==
    /\ WroteSet(last) /\ ~last.opts.unset /\ idAttribute \in DOMAIN Named(last)
    /\ Get(last.pre, idAttribute) = "a"
    /\ MirroredId = Null

(***************************************************************************)
(* C7: when a fetch without silent succeeds with raw response R and        *)
(* parse(R) is a mapping, get(k) = parse(R)[k] for every key of parse(R),  *)
(* the other keys are unchanged and exactly one "change" has fired.        *)
(***************************************************************************)
C7_FetchAppliesParsed ==
    (last.op = "success" /\ ~last.opts.silent /\ Parsed(last).t = "object") =>
        /\ \A k \in DOMAIN Parsed(last).m : Get(attributes, k) = Parsed(last).m[k]
        /\ \A k \in Keys \ DOMAIN Parsed(last).m : Get(attributes, k) = Get(last.pre, k)
        /\ Count(fired, "change") = 1

\* C7 as amended: the same for a fetch issued without silent and without unset
C7_FetchAppliesParsedNoUnset ==
    ~last.opts.unset => C7_FetchAppliesParsed

\* {data: {title: "a"}} arrived: title replaced, the stored id kept, one change
C7_Witness ==
    /\ last.op = "success" /\ ~last.opts.silent /\ ~last.opts.unset
    /\ Parsed(last) = JObj("title" :> "a")
    /\ Get(last.pre, "title") # "a"
    /\ Get(attributes, "title") = "a"
    /\ idAttribute \in DOMAIN attributes
    /\ fired = <<"parse", "success", "change">>

(***************************************************************************)
(* C8: a transport error raises exactly one "error" notification and no    *)
(* "change"; neither issuing the fetch nor its error handler changes       *)
(* current or the mirrored identity field.                                 *)
(***************************************************************************)
C8_ErrorOnlyNotifies ==
    [][/\ last'.op = "error" =>
              /\ fired' = <<"error">>
              /\ attributes' = attributes /\ own' = own
       /\ last'.op = "fetch" =>
              /\ fired' = <<>>
              /\ attributes' = attributes /\ own' = own]_vars

\* an error callback has run on an instance that holds attributes
C8_Witness ==
    /\ last.op = "error"
    /\ attributes # EmptyMap
    /\ MirroredId # Undefined
    /\ fired = <<"error">>

(***************************************************************************)
(* C9: of two overlapping fetches that both succeed, the response whose    *)
(* callback ran last decides every key present in both parsed responses,   *)
(* whatever the order of issue.                                            *)
(***************************************************************************)
C9_LastCallbackWins ==
    [][(/\ last.op = "success" /\ last'.op = "success"
        /\ Parsed(last).t = "object" /\ Parsed(last').t = "object")
       => \A k \in DOMAIN Parsed(last).m \cap DOMAIN Parsed(last').m :
              Get(attributes', k) = Parsed(last').m[k]]_vars

\* C9 as amended: the same when the fetch whose callback ran last was issued
\* without unset
C9_LastCallbackWinsNoUnset ==
    [][(/\ last.op = "success" /\ last'.op = "success"
        /\ Parsed(last).t = "object" /\ Parsed(last').t = "object"
        /\ ~last'.opts.unset)
       => \A k \in DOMAIN Parsed(last).m \cap DOMAIN Parsed(last').m :
              Get(attributes', k) = Parsed(last').m[k]]_vars

\* the first-issued fetch resolved after the second-issued one, with another
\* value for a shared key, and its value stands
C9_Witness ==
    /\ last.after = "later-success"
    /\ ~last.opts.unset
    /\ \A k \in DOMAIN Parsed(last).m : Get(attributes, k) = Parsed(last).m[k]

(***************************************************************************)
(* C10: right after construction toJSON() equals the defaults D overridden *)
(* by the constructor attributes A; afterwards the defaults are never      *)
(* re-applied: a key changes only in a set or fetch completion naming it.  *)
(***************************************************************************)
OnlyNamedKeysChange ==
    \A k \in Keys :
        Get(attributes', k) # Get(attributes, k) =>
            \/ WroteSet(last') /\ k \in DOMAIN Named(last')
            \/ /\ last'.op = "success" /\ Parsed(last').t = "object"
               /\ k \in DOMAIN Parsed(last').m

C10_DefaultsUnderAttributes ==
    [][/\ last'.op = "new" =>
              ToJSON(Object("attributes", attributes')).m =
                  Overridden(last'.defaults, last'.key.m)
       /\ constructed => OnlyNamedKeysChange]_vars

\* C10 as amended: the same for a construction whose options carry no unset
C10_DefaultsUnderAttributesNoUnset ==
    [][/\ (last'.op = "new" /\ ~last'.opts.unset) =>
              ToJSON(Object("attributes", attributes')).m =
                  Overridden(last'.defaults, last'.key.m)
       /\ constructed => OnlyNamedKeysChange]_vars

\* defaults {id: "a", title: "a"} under attributes {title: null}
C10_Witness ==
    /\ last.op = "new" /\ ~last.opts.unset
    /\ DOMAIN last.defaults = Keys
    /\ DOMAIN last.key.m = {"title"}
    /\ last.key.m["title"] # last.defaults["title"]
    /\ attributes = (idAttribute :> last.defaults[idAttribute]) @@ last.key.m

(***************************************************************************)
(* C11: a set call whose first argument is null changes nothing and        *)
(* returns the instance: current, previous and the mirrored identity field *)
(* stay as they were and no "change" fires, whatever options are passed.   *)
(***************************************************************************)
C11_SetNullIsNoOp ==
    [][(last'.op = "set" /\ last'.key.t = "null") =>
           /\ attributes' = attributes
           /\ previousAttributes' = previousAttributes
           /\ own' = own
           /\ fired' = <<>>
           /\ last'.ret = "me"]_vars

\* set(null) without silent on an instance whose previous differs from current
C11_Witness ==
    /\ last.op = "set" /\ last.key.t = "null" /\ ~last.opts.silent
    /\ last.ret = "me"
    /\ attributes # EmptyMap
    /\ previousAttributes # attributes
    /\ fired = <<>>

(***************************************************************************)
(* C12: a fetch called with {silent: true} that completes successfully     *)
(* applies the parsed response to current, so that get returns the new     *)
(* values, and triggers no "change": the set inside the success handler    *)
(* receives the options of the fetch call.                                 *)
(***************************************************************************)
C12_SilentFetchApplies ==
    (/\ last.op = "success" /\ last.opts.silent /\ ~last.opts.unset
     /\ Parsed(last).t = "object") =>
        /\ \A k \in DOMAIN Parsed(last).m : Get(attributes, k) = Parsed(last).m[k]
        /\ \A k \in Keys \ DOMAIN Parsed(last).m : Get(attributes, k) = Get(last.pre, k)
        /\ Count(fired, "change") = 0

\* a silent fetch has replaced the value of a key and only the callback ran
C12_Witness ==
    /\ last.op = "success" /\ last.opts.silent /\ ~last.opts.unset
    /\ Parsed(last).t = "object"
    /\ \E k \in DOMAIN Parsed(last).m :
           /\ k \in DOMAIN last.pre
           /\ last.pre[k] # Parsed(last).m[k]
           /\ Get(attributes, k) = Parsed(last).m[k]
    /\ fired = <<"parse", "success">>

(***************************************************************************)
(* C13: the correlation id assigned at construction is stable for the      *)
(* lifetime of the instance: no set, unset, fetch completion, change() or  *)
(* toJSON changes it, for any configured idAttribute key and any attribute *)
(* names in the mappings.                                                  *)
(***************************************************************************)
C13_CidStable ==
    constructed => ("cid" \in DOMAIN own /\ own["cid"] = UniqueId("c"))

(***************************************************************************)
(* C14: toJSON returns a mapping equal to current at the time of the call  *)
(* and independent of it: writing, overwriting or deleting keys in the     *)
(* returned mapping never changes what a later get, has or toJSON returns. *)
(***************************************************************************)
C14_ToJSONIndependent ==
    [][/\ last'.op = "toJSON" =>
              last'.key.m = attributes /\ attributes' = attributes
       /\ last'.op = "mutate" =>
              /\ \A k \in Keys : /\ Get(attributes', k) = Get(attributes, k)
                                 /\ Has(attributes', k) = Has(attributes, k)
              /\ ToJSON(Object("attributes", attributes')).m =
                     ToJSON(Object("attributes", attributes)).m]_vars

\* the caller's mapping has been written to and now differs from current
C14_Witness ==
    /\ last.op = "mutate"
    /\ attributes # EmptyMap
    /\ last.key.m # attributes
    /\ \E k \in DOMAIN attributes : k \notin DOMAIN last.key.m

(***************************************************************************)
(* C15: every fetch call goes from idle to in-flight to settled-success or *)
(* settled-error and does not leave a settled state: a call comes into     *)
(* flight only by being issued, leaves it only in its own completion, and  *)
(* that completion is exactly one of the two outcomes - one application of *)
(* set with the parsed response, or one "error" notification - never both  *)
(* and never twice.  Under fairness of the transport every issued fetch    *)
(* eventually settles.                                                     *)
(***************************************************************************)
Issued == {call \in Calls : ~InFlight(call) /\ InFlight(call)'}

Settled == {call \in Calls : InFlight(call) /\ ~InFlight(call)'}

OneOutcome ==
    \/ /\ last'.op = "success"
       /\ Settled = {last'.opts.tag}
       /\ Count(fired', "success") = 1 /\ Count(fired', "error") = 0
       /\ Count(fired', "change") <= 1
       /\ Parsed(last').t = "object" =>
              /\ previousAttributes' = attributes
              /\ attributes' = EachAttr(attributes, Parsed(last').m,
                                        DOMAIN Parsed(last').m, last'.opts)
    \/ /\ last'.op = "error"
       /\ fired' = <<"error">>
       /\ attributes' = attributes /\ previousAttributes' = previousAttributes

C15_FetchSettlesOnce ==
    /\ [][/\ Cardinality(Issued) + Cardinality(Settled) <= 1
          /\ Len(pending') = Len(pending) + Cardinality(Issued) - Cardinality(Settled)
          /\ Issued # {} =>
                 /\ last'.op = "fetch" /\ Issued = {last'.opts.tag}
                 /\ fired' = <<>>
          /\ Settled # {} => OneOutcome
          /\ (Count(fired', "success") + Count(fired', "error") > 0) =>
                 Settled # {}]_vars
    /\ \A call \in Calls : InFlight(call) ~> ~InFlight(call)

\* of two calls in flight, the one issued later has settled with a success
\* that replaced a value, the other is still in flight
C15_Witness ==
    /\ last.op = "success" /\ last.id = 2
    /\ Len(pending) = 1 /\ ~InFlight(last.opts.tag)
    /\ fired = <<"parse", "success", "change">>
    /\ attributes # last.pre /\ last.pre # EmptyMap

(***************************************************************************)
(* C16: on transport success the steps run in the order parse, the         *)
(* caller's success callback, set, "change".  The caller's callback runs   *)
(* exactly once and before the parsed result is applied, so during it get  *)
(* still returns the values from before the response; on transport failure *)
(* it does not run at all.                                                 *)
(***************************************************************************)
C16_CallbackBeforeSet ==
    /\ last.op = "success" =>
           /\ fired \in {<<"parse", "success">>, <<"parse", "success", "change">>}
           /\ last.seen[1].at = "success"
           /\ last.seen[1].attributes = last.pre
           /\ Len(last.seen) = Len(fired) - 1
           /\ Len(last.seen) = 2 =>
                  /\ last.seen[2].at = "change"
                  /\ last.seen[2].attributes = attributes
    /\ last.op = "error" =>
           Count(fired, "success") = 0 /\ Count(fired, "parse") = 0

\* the callback found the old value of a key that the response then replaced
C16_Witness ==
    /\ last.op = "success"
    /\ fired = <<"parse", "success", "change">>
    /\ \E k \in DOMAIN last.pre :
           /\ last.seen[1].attributes[k] = last.pre[k]
           /\ k \in DOMAIN attributes /\ attributes[k] # last.pre[k]

(***************************************************************************)
(* C17: issuing a fetch has no synchronous effect on the store: the call   *)
(* itself changes neither current nor previous nor the mirrored identity   *)
(* and triggers neither "change" nor "error"; it only hands one request to *)
(* the transport.  The store changes and the callbacks and notifications   *)
(* of a fetch happen only inside its completion callback, the notification *)
(* before that callback returns.                                           *)
(***************************************************************************)
C17_FetchIsAsynchronous ==
    [][/\ last'.op = "fetch" =>
              /\ attributes' = attributes
              /\ previousAttributes' = previousAttributes
              /\ own' = own
              /\ fired' = <<>>
              /\ pending' = Append(pending, FetchOptions(last'.opts))
       /\ Len(pending') < Len(pending) =>
              /\ last'.op \in {"success", "error"}
              /\ fired' # <<>>
       /\ (Count(fired', "success") + Count(fired', "error") > 0) =>
              /\ last'.op \in {"success", "error"}
              /\ Len(pending') = Len(pending) - 1]_vars

\* a fetch has been issued on an instance whose previous differs from current
C17_Witness ==
    /\ last.op = "fetch"
    /\ attributes # EmptyMap
    /\ previousAttributes # attributes
    /\ Len(pending) = 2
    /\ fired = <<>>

(***************************************************************************)
(* C18: construction runs in the order: empty snapshot, correlation id,    *)
(* set of the merged defaults and attributes, init hook.  Exactly one      *)
(* "change" fires during construction, or none when the constructor        *)
(* options carry silent, and when init runs current already holds the      *)
(* merged attributes.                                                      *)
(***************************************************************************)
ConstructionOrder ==
    /\ fired = IF last.opts.silent THEN <<"init">> ELSE <<"change", "init">>
    /\ Len(last.seen) = Len(fired)
    /\ ~last.opts.silent =>
           /\ last.seen[1].at = "change"
           /\ last.seen[1].previousAttributes = EmptyMap
    /\ last.seen[Len(last.seen)].at = "init"
    /\ last.seen[Len(last.seen)].attributes = attributes
    /\ "cid" \in DOMAIN own /\ own["cid"] = UniqueId("c")

C18_InitSeesMerged ==
    last.op = "new" =>
        /\ ConstructionOrder
        /\ last.seen[Len(last.seen)].attributes =
               Overridden(last.defaults, last.key.m)

\* C18 as amended: init finds the merged attributes when the constructor
\* options carry no unset
C18_InitSeesMergedNoUnset ==
    last.op = "new" =>
        /\ ConstructionOrder
        /\ ~last.opts.unset =>
               last.seen[Len(last.seen)].attributes =
                   Overridden(last.defaults, last.key.m)

\* a silent construction from defaults and attributes that share a key
C18_Witness ==
    /\ last.op = "new" /\ last.opts.silent /\ ~last.opts.unset
    /\ fired = <<"init">>
    /\ DOMAIN last.defaults = Keys /\ DOMAIN last.key.m = {"title"}
    /\ last.key.m["title"] # last.defaults["title"]
    /\ last.seen[1].attributes = Overridden(last.defaults, last.key.m)

(***************************************************************************)
(* C19: when the "change" notification of a set call is dispatched, every  *)
(* key of the incoming mapping has already been written or deleted and     *)
(* previous holds the snapshot from before the call, so a listener never   *)
(* finds a partially applied mapping; this also holds for the set call a   *)
(* listener makes from inside the notification.                            *)
(***************************************************************************)
AppliedTo(before, named, opts) ==
    IF opts.unset THEN [k \in DOMAIN before \ DOMAIN named |-> before[k]]
    ELSE Overridden(before, named)

C20_MirrorFollowsPresentId ==
    constructed =>
        /\ idAttribute \in DOMAIN attributes =>
               MirroredId = Get(attributes, idAttribute)
        /\ (/\ WroteSet(last) /\ last.opts.unset
            /\ idAttribute \in DOMAIN Named(last)) =>
               /\ idAttribute \notin DOMAIN attributes
               /\ MirroredId = Named(last)[idAttribute]

\* an unset naming the idAttribute key has removed it while the mirrored
\* field took the passed value, which differs from what get returns
C20_Witness ==
    /\ WroteSet(last) /\ last.opts.unset
    /\ idAttribute \in DOMAIN last.pre
    /\ idAttribute \in DOMAIN Named(last)
    /\ idAttribute \notin DOMAIN attributes
    /\ MirroredId = "a"
    /\ MirroredId # Get(attributes, idAttribute)

====
